---- MODULE Spec2Model ----
(***************************************************************************)
(* Attestation issuing service (app/sas_client, app/backend) and the       *)
(* on-ledger validator (programs/test-solana-program).                     *)
(*                                                                         *)
(* A public key is a sequence of atoms.  Pubkey::find_program_address is a *)
(* collision-resistant hash of the byte concatenation of its seeds and the *)
(* program id; it is modelled by that concatenation itself, so two         *)
(* derivations agree exactly when their concatenated seed bytes agree.     *)
(* The service's SystemTime and the ledger's Clock sysvar are one clock.   *)
(***************************************************************************)
EXTENDS Integers, Sequences, FiniteSets, TLC

VARIABLES
    ledger,   \* the accounts of the ledger, by address
    now,      \* the clock, in seconds
    boot,     \* position of AttestationService::init
    req,      \* the calls of the service in flight
    won,      \* per subject, the creations the ledger has committed
    ret,      \* what the call that returned in this step returned
    vcall,    \* the validator run of this step
    started   \* whether a run of init has returned Ok

vars == <<ledger, now, boot, req, won, ret, vcall, started>>

----------------------------------------------------------------------------
(* Bounds of the model *)

MaxJump == 1      \* clock steps, each of one validity window
MaxLen == 2       \* longest payload handed to the validator as raw input
MaxVTime == 2     \* largest clock and expiry handed to the validator as raw input

----------------------------------------------------------------------------
(* Program constants *)

CREDENTIAL_NAME == "Test Credential"
SCHEMA_NAME == "UserVerification"
SCHEMA_VERSION == 1
SCHEMA_DESC == "age: bool, country: bool"
ATTESTATION_EXPIRY == 2592000

SOLANA_ATTESTATION_SERVICE_ID == <<"SAS">>
SystemProgramId == <<"System">>
NativeLoaderId == <<"NativeLoader">>

\* key material read once at process start (issuer role, signer role)
Issuer == <<"issuer">>
Signer == <<"signer">>

\* subjects, and the address strings a request can carry
Users == {<<"u1">>, <<"u2">>}
AddressStrings == {"u1", "u2", "not-base58"}

Bytes == {0, 1, 2}

----------------------------------------------------------------------------
(* Address Deriver *)

RECURSIVE Concat(_)
Concat(seeds) ==
    IF seeds = <<>> THEN <<>> ELSE Head(seeds) \o Concat(Tail(seeds))

find_program_address(seeds, program_id) ==
    Concat(seeds) \o program_id \o <<"ProgramDerivedAddress">>

credential_pda(issuer) ==
    find_program_address(<< <<"credential">>, issuer, <<CREDENTIAL_NAME>> >>,
                         SOLANA_ATTESTATION_SERVICE_ID)

schema_pda(credential) ==
    find_program_address(<< <<"schema">>, credential, <<SCHEMA_NAME>>,
                            <<ToString(SCHEMA_VERSION)>> >>,
                         SOLANA_ATTESTATION_SERVICE_ID)

\* mutant: the schema seed before the credential seed
attestation_pda_swapped(credential, schema, user) ==
    find_program_address(<< <<"attestation">>, schema, credential, user >>,
                         SOLANA_ATTESTATION_SERVICE_ID)

attestation_pda(credential, schema, user) ==
    find_program_address(<< <<"attestation">>, credential, schema, user >>,
                         SOLANA_ATTESTATION_SERVICE_ID)

\* attestation_pda of the earlier build of the client (app/backend): the
\* same seeds, taken with to_bytes()
attestation_pda_v0(credential, schema, user) ==
    find_program_address(<< <<"attestation">>, credential, schema, user >>,
                         SOLANA_ATTESTATION_SERVICE_ID)

\* AttestationService::new
cred_pda == credential_pda(Issuer)
schema_pda_ == schema_pda(cred_pda)

\* Pubkey::from_str of the request's address string
from_str(s) ==
    IF s \in {"u1", "u2"} THEN [ok |-> TRUE, key |-> <<s>>]
    ELSE [ok |-> FALSE, key |-> <<>>]

----------------------------------------------------------------------------
(* Payload Codec: borsh encoding of AttestationPayload {age, country} *)

AttestationPayloads == [age : BOOLEAN, country : BOOLEAN]

bool_byte(b) == IF b THEN 1 ELSE 0

\* mutant: only the first field is written
serialize_age_only(payload) == <<bool_byte(payload.age)>>

\* mutant: the fields are written in the other order
serialize_swapped(payload) ==
    <<bool_byte(payload.country), bool_byte(payload.age)>>

serialize(payload) == <<bool_byte(payload.age), bool_byte(payload.country)>>

\* mutant: the fields are read in the other order
try_from_slice_swapped(bytes) ==
    IF Len(bytes) # 2 \/ bytes[1] \notin {0, 1} \/ bytes[2] \notin {0, 1}
    THEN [ok |-> FALSE, payload |-> [age |-> FALSE, country |-> FALSE]]
    ELSE [ok |-> TRUE,
          payload |-> [age |-> bytes[2] = 1, country |-> bytes[1] = 1]]

\* borsh try_from_slice: exactly two bytes, each a canonical bool
try_from_slice(bytes) ==
    IF Len(bytes) # 2 \/ bytes[1] \notin {0, 1} \/ bytes[2] \notin {0, 1}
    THEN [ok |-> FALSE, payload |-> [age |-> FALSE, country |-> FALSE]]
    ELSE [ok |-> TRUE,
          payload |-> [age |-> bytes[1] = 1, country |-> bytes[2] = 1]]

\* schema metadata written by create_schema
layout == <<10, 10>>
fields == <<"age", "country">>

----------------------------------------------------------------------------
(* Ledger.  An account's data is the positional (borsh) sequence of its     *)
(* fields, after the tag of its account type; an address that holds no     *)
(* account is loaded by the runtime as an empty account owned by the       *)
(* system program.                                                         *)

AttestationData(nonce, credential, schema, data, signer, expiry) ==
    <<"Attestation", nonce, credential, schema, data, signer, expiry, <<>> >>

CredentialData == <<"Credential", Issuer, CREDENTIAL_NAME, <<Signer>> >>

SchemaData == <<"Schema", cred_pda, SCHEMA_NAME, SCHEMA_DESC, layout, fields>>

\* layout() of the earlier build of the client (app/backend), and the Schema
\* account such a build writes under the same credential, name and version
layout_v0 == <<1, 1>>

DriftedSchemaData ==
    <<"Schema", cred_pda, SCHEMA_NAME, SCHEMA_DESC, layout_v0, fields>>

\* layout and field names of a Schema account
SchemaLayout(data) == data[5]
SchemaFields(data) == data[6]

Addrs ==
    {cred_pda, schema_pda_, SystemProgramId}
        \cup {attestation_pda(cred_pda, schema_pda_, u) : u \in Users}

Absent == [exists |-> FALSE, owner |-> SystemProgramId, data |-> <<>>]

AccountInfo(addr) ==
    [key |-> addr, owner |-> ledger[addr].owner, data |-> ledger[addr].data]

\* Attestation::from_bytes: positional read of the fixed header
from_bytes(data) ==
    IF Len(data) < 8
    THEN [ok |-> FALSE]
    ELSE [ok |-> TRUE, nonce |-> data[2], credential |-> data[3],
          schema |-> data[4], data |-> data[5], signer |-> data[6],
          expiry |-> data[7]]

----------------------------------------------------------------------------
(* Validator *)

Reject(reason) ==
    [ok |-> FALSE, err |-> reason, emitted |-> FALSE, valid |-> FALSE]

\* mutant: the owner is not looked at
owner_check_skipped(ai) == TRUE

\* 1) owner check
owner_check(ai) == ai.owner = SOLANA_ATTESTATION_SERVICE_ID

\* mutant: the validator puts the subject seed first
pda_check_subject_first(ai, credential_key, schema_key, user_wallet) ==
    ai.key = find_program_address(
                << <<"attestation">>, user_wallet, credential_key, schema_key >>,
                SOLANA_ATTESTATION_SERVICE_ID)

\* 2) PDA check: attestation = PDA("attestation", credential, schema, user)
pda_check(ai, credential_key, schema_key, user_wallet) ==
    ai.key = find_program_address(
                << <<"attestation">>, credential_key, schema_key, user_wallet >>,
                SOLANA_ATTESTATION_SERVICE_ID)

\* header references the passed credential and schema, and nonce = user
header_check(att, credential_key, schema_key, user_wallet) ==
    /\ att.credential = credential_key
    /\ att.schema = schema_key
    /\ att.nonce = user_wallet

\* mutant: the expiry is not looked at
expiry_check_skipped(clock, expiry) == TRUE

\* mutant: an attestation still passes at the second it expires
expiry_check_inclusive(clock, expiry) == clock <= expiry

\* 4) expiry check against the Clock sysvar
expiry_check(clock, expiry) == clock < expiry

\* 5) payload check: exactly two bytes, both nonzero
payload_len_check(payload) == Len(payload) = 2

\* mutant: one true field is enough
payload_valid_either(payload) == (payload[1] # 0) \/ (payload[2] # 0)

payload_valid(payload) == (payload[1] # 0) /\ (payload[2] # 0)

Accept(valid) ==
    [ok |-> TRUE, err |-> "none", emitted |-> TRUE, valid |-> valid]

\* mutant: the address is checked before the owner
validate_impl_pda_first(ai, credential_key, schema_key, user_wallet, clock) ==
    IF ~pda_check(ai, credential_key, schema_key, user_wallet)
    THEN Reject("InvalidAttestationPda")
    ELSE IF ~owner_check(ai)
    THEN Reject("WrongOwner")
    ELSE LET att == from_bytes(ai.data) IN
    IF ~att.ok
    THEN Reject("DecodeFailed")
    ELSE IF ~header_check(att, credential_key, schema_key, user_wallet)
    THEN Reject("HeaderMismatch")
    ELSE IF ~expiry_check(clock, att.expiry)
    THEN Reject("Expired")
    ELSE IF ~payload_len_check(att.data)
    THEN Reject("SchemaMismatch")
    ELSE Accept(payload_valid(att.data))

\* mutant: the account is checked against the nonce of its own header, not
\* against the user argument
validate_impl_unbound(ai, credential_key, schema_key, user_wallet, clock) ==
    IF ~owner_check(ai)
    THEN Reject("WrongOwner")
    ELSE LET att == from_bytes(ai.data) IN
    IF ~att.ok
    THEN Reject("DecodeFailed")
    ELSE IF ~pda_check(ai, credential_key, schema_key, att.nonce)
    THEN Reject("InvalidAttestationPda")
    ELSE IF ~header_check(att, credential_key, schema_key, att.nonce)
    THEN Reject("HeaderMismatch")
    ELSE IF ~expiry_check(clock, att.expiry)
    THEN Reject("Expired")
    ELSE IF ~payload_len_check(att.data)
    THEN Reject("SchemaMismatch")
    ELSE Accept(payload_valid(att.data))

validate_impl(ai, credential_key, schema_key, user_wallet, clock) ==
    IF ~owner_check(ai)
    THEN Reject("WrongOwner")
    ELSE IF ~pda_check(ai, credential_key, schema_key, user_wallet)
    THEN Reject("InvalidAttestationPda")
    ELSE LET att == from_bytes(ai.data) IN
    IF ~att.ok
    THEN Reject("DecodeFailed")
    ELSE IF ~header_check(att, credential_key, schema_key, user_wallet)
    THEN Reject("HeaderMismatch")
    ELSE IF ~expiry_check(clock, att.expiry)
    THEN Reject("Expired")
    ELSE IF ~payload_len_check(att.data)
    THEN Reject("SchemaMismatch")
    ELSE Accept(payload_valid(att.data))

----------------------------------------------------------------------------
(* Ledger Gateway: what the ledger does with a read and with a submitted   *)
(* creation.  An account can be created only at an address that holds     *)
(* none.                                                                   *)

RpcRead(addr) ==
    IF ledger[addr].exists THEN {"Ok", "Fault"} ELSE {"NotFound", "Fault"}

Occupied(addr) == ledger[addr].exists

CreateAccount(addr, data) ==
    [ledger EXCEPT ![addr] =
        [exists |-> TRUE, owner |-> SOLANA_ATTESTATION_SERVICE_ID, data |-> data]]

\* mutant: a creation is accepted at an occupied address too
LedgerAccepts_occupied(addr) ==
    /\ Occupied(cred_pda)
    /\ Occupied(schema_pda_)

\* whether the ledger accepts the creation of an attestation: the derived
\* address must be free and the credential and schema accounts must exist
LedgerAccepts(addr) ==
    /\ ~Occupied(addr)
    /\ Occupied(cred_pda)
    /\ Occupied(schema_pda_)

----------------------------------------------------------------------------
(* State *)

Reqs == {1, 2}

NoPayload == [age |-> FALSE, country |-> FALSE]

IdleReq ==
    [pc |-> "idle", op |-> "none", user |-> <<>>, payload |-> NoPayload,
     expiry |-> 0, raced |-> "none"]

NoRet ==
    [kind |-> "none", r |-> 0, op |-> "none", user |-> <<>>,
     payload |-> NoPayload, expiry |-> 0, rpc |-> "-", fetched |-> "-",
     got |-> NoPayload, created |-> "-", occupied |-> FALSE, raced |-> "none",
     pre |-> Absent, response |-> "-", again |-> FALSE, address |-> "",
     bytes |-> <<>>]

NoCall ==
    [stage |-> "none", ai |-> [key |-> <<>>, owner |-> <<>>, data |-> <<>>],
     credential |-> <<>>, schema |-> <<>>, user |-> <<>>, clock |-> 0,
     res |-> Reject("-"), fetched |-> "-", got |-> NoPayload]

\* a ledger nothing was created on
FreshLedger ==
    [a \in Addrs |->
        IF a = SystemProgramId
        THEN [exists |-> TRUE, owner |-> NativeLoaderId, data |-> <<>>]
        ELSE Absent]

\* a fresh ledger and a service that has not started
InitService ==
    /\ ledger = FreshLedger
    /\ now = 0
    /\ boot = "new"
    /\ req = [r \in Reqs |-> IdleReq]
    /\ won = [u \in Users |-> <<>>]
    /\ ret = NoRet
    /\ started = FALSE

Init == InitService /\ vcall = NoCall

InFlight(r) == req[r].pc \in {"fetch", "submit"}

----------------------------------------------------------------------------
(* AttestationService::init, run at every process start *)

\* what a run of init returned, and at which step: Ok(()) or the error of
\* the step that failed
InitReturn(result, rpc) ==
    [NoRet EXCEPT !.kind = "init", !.op = boot, !.created = result,
                  !.rpc = rpc, !.again = started]

\* the step after a step of init, by whether init goes on or returns
InitStep(next, rpc) ==
    /\ boot' = next
    /\ ret' = CASE next = "ready" -> InitReturn("Ok", rpc)
              [] next = "failed" -> InitReturn("Err", rpc)
              [] OTHER -> NoRet
    /\ started' = (started \/ next = "ready")

\* airdrop_up_to(MIN_SOL_BALANCE).await?
InitStart ==
    /\ boot \in {"new", "ready", "failed"}
    /\ \A r \in Reqs : ~InFlight(r)
    /\ \E airdropped \in BOOLEAN :
          IF airdropped THEN InitStep("checkCred", "Ok")
          ELSE InitStep("failed", "Fault")
    /\ vcall' = NoCall
    /\ UNCHANGED <<ledger, now, req, won>>

\* mutant: any failed read counts as an absent account
account_exists_is_ok(rpc) == IF rpc = "Ok" THEN "true" ELSE "false"

\* account_exists: Ok -> true, RpcError::ForUser -> false, other -> Err
account_exists(rpc) ==
    IF rpc = "Ok" THEN "true" ELSE IF rpc = "NotFound" THEN "false" ELSE "err"

InitCheckCred ==
    /\ boot = "checkCred"
    /\ \E rpc \in RpcRead(cred_pda) :
          InitStep(CASE account_exists(rpc) = "true" -> "checkSchema"
                     [] account_exists(rpc) = "false" -> "createCred"
                     [] OTHER -> "failed",
                   rpc)
    /\ vcall' = NoCall
    /\ UNCHANGED <<ledger, now, req, won>>

\* mutant: the error of create_credential is dropped and init goes on
InitCreateCred_ignored ==
    /\ boot = "createCred"
    /\ \E fault \in BOOLEAN :
          IF fault \/ Occupied(cred_pda)
          THEN /\ InitStep("checkSchema", IF fault THEN "Fault" ELSE "Ok")
               /\ UNCHANGED ledger
          ELSE /\ ledger' = CreateAccount(cred_pda, CredentialData)
               /\ InitStep("checkSchema", "Ok")
    /\ vcall' = NoCall
    /\ UNCHANGED <<now, req, won>>

InitCreateCred ==
    /\ boot = "createCred"
    /\ \E fault \in BOOLEAN :
          IF fault \/ Occupied(cred_pda)
          THEN /\ InitStep("failed", IF fault THEN "Fault" ELSE "Ok")
               /\ UNCHANGED ledger
          ELSE /\ ledger' = CreateAccount(cred_pda, CredentialData)
               /\ InitStep("checkSchema", "Ok")
    /\ vcall' = NoCall
    /\ UNCHANGED <<now, req, won>>

InitCheckSchema ==
    /\ boot = "checkSchema"
    /\ \E rpc \in RpcRead(schema_pda_) :
          InitStep(CASE account_exists(rpc) = "true" -> "ready"
                     [] account_exists(rpc) = "false" -> "createSchema"
                     [] OTHER -> "failed",
                   rpc)
    /\ vcall' = NoCall
    /\ UNCHANGED <<ledger, now, req, won>>

InitCreateSchema ==
    /\ boot = "createSchema"
    /\ \E fault \in BOOLEAN :
          IF fault \/ Occupied(schema_pda_) \/ ~Occupied(cred_pda)
          THEN /\ InitStep("failed", IF fault THEN "Fault" ELSE "Ok")
               /\ UNCHANGED ledger
          ELSE /\ ledger' = CreateAccount(schema_pda_, SchemaData)
               /\ InitStep("ready", "Ok")
    /\ vcall' = NoCall
    /\ UNCHANGED <<now, req, won>>

----------------------------------------------------------------------------
(* AttestationService::fetch_attestation and ::create_attestation *)

\* mutant: an expired attestation counts as no attestation
fetch_attestation_fresh(rpc, data) ==
    IF rpc # "Ok"
    THEN [res |-> "None", payload |-> NoPayload]
    ELSE LET att == from_bytes(data) IN
         IF ~att.ok
         THEN [res |-> "ErrHeader", payload |-> NoPayload]
         ELSE IF now >= att.expiry
         THEN [res |-> "None", payload |-> NoPayload]
         ELSE LET p == try_from_slice(att.data) IN
              IF ~p.ok
              THEN [res |-> "ErrPayload", payload |-> NoPayload]
              ELSE [res |-> "Some", payload |-> p.payload]

\* mutant: an account that does not decode counts as no attestation
fetch_attestation_lenient(rpc, data) ==
    IF rpc # "Ok"
    THEN [res |-> "None", payload |-> NoPayload]
    ELSE LET att == from_bytes(data) IN
         IF ~att.ok
         THEN [res |-> "None", payload |-> NoPayload]
         ELSE LET p == try_from_slice(att.data) IN
              IF ~p.ok
              THEN [res |-> "None", payload |-> NoPayload]
              ELSE [res |-> "Some", payload |-> p.payload]

\* mutant: a failed read is returned as an error
fetch_attestation_strict(rpc, data) ==
    IF rpc # "Ok"
    THEN [res |-> "ErrRpc", payload |-> NoPayload]
    ELSE LET att == from_bytes(data) IN
         IF ~att.ok
         THEN [res |-> "ErrHeader", payload |-> NoPayload]
         ELSE LET p == try_from_slice(att.data) IN
              IF ~p.ok
              THEN [res |-> "ErrPayload", payload |-> NoPayload]
              ELSE [res |-> "Some", payload |-> p.payload]

\* the result of fetch_attestation given the outcome of get_account
fetch_attestation(rpc, data) ==
    IF rpc # "Ok"
    THEN [res |-> "None", payload |-> NoPayload]
    ELSE LET att == from_bytes(data) IN
         IF ~att.ok
         THEN [res |-> "ErrHeader", payload |-> NoPayload]
         ELSE LET p == try_from_slice(att.data) IN
              IF ~p.ok
              THEN [res |-> "ErrPayload", payload |-> NoPayload]
              ELSE [res |-> "Some", payload |-> p.payload]

\* the expiry create_attestation computes from the service's clock
create_attestation_expiry(t) == t + ATTESTATION_EXPIRY

\* mutant: the nonce is the signer of the attestation, not the subject
create_attestation_data_nonce_signer(user, payload, expiry) ==
    AttestationData(Signer, cred_pda, schema_pda_, serialize(payload), Signer,
                    expiry)

\* mutant: the payload is never serialized into the instruction data
create_attestation_data_empty(user, payload, expiry) ==
    AttestationData(user, cred_pda, schema_pda_, <<>>, Signer, expiry)

\* the account data the instruction built by create_attestation asks for
create_attestation_data(user, payload, expiry) ==
    AttestationData(user, cred_pda, schema_pda_, serialize(payload), Signer,
                    expiry)

\* mutant: the result of send is dropped
create_attestation_result_ignored(accepted) == "Ok"

\* what the caller of create_attestation gets back (send(...).await?)
create_attestation_result(accepted) == IF accepted THEN "Ok" ELSE "Err"

\* mutant: the success response also answers an address that does not parse
verification_response_always(parsed, fetched) ==
    IF parsed /\ fetched = "None" THEN "-" ELSE "TT"

\* the handler's answer once fetch_attestation returned r; "-" while it
\* goes on to create
verification_response(parsed, fetched) ==
    IF ~parsed THEN "FF" ELSE IF fetched = "None" THEN "-" ELSE "TT"

----------------------------------------------------------------------------
(* Callers: the verification handler (any slot), and a direct call of      *)
(* create_attestation as the tests make it (slot 1)                        *)

Ready(r) == boot = "ready" /\ req[r].pc = "idle"

\* verification_handler, up to the first await
Verify(r, s) ==
    /\ Ready(r)
    /\ IF from_str(s).ok
       THEN /\ req' = [req EXCEPT ![r] =
                          [IdleReq EXCEPT !.pc = "fetch", !.op = "verify",
                                          !.user = from_str(s).key,
                                          !.payload = [age |-> TRUE,
                                                       country |-> TRUE]]]
            /\ ret' = NoRet
       ELSE /\ req' = req
            /\ ret' = [NoRet EXCEPT !.kind = "invalid", !.r = r,
                                    !.op = "verify", !.address = s,
                                    !.response =
                                        verification_response(FALSE, "-")]
    /\ vcall' = NoCall
    /\ UNCHANGED <<ledger, now, boot, won, started>>

\* both slots submitting a creation for the same subject
Racing(q) ==
    \E a, b \in Reqs :
        /\ a # b
        /\ q[a].pc = "submit" /\ q[b].pc = "submit"
        /\ q[a].user = q[b].user

\* each racer is marked with the caller it races ("verify" or "create")
MarkRace(q) ==
    IF Racing(q)
    THEN [r \in Reqs |->
            [q[r] EXCEPT !.raced = q[CHOOSE o \in Reqs : o # r].op]]
    ELSE q

\* a direct call of create_attestation(user, payload)
CreateCall(r, u, p) ==
    /\ r = 1
    /\ Ready(r)
    /\ req' = MarkRace([req EXCEPT ![r] =
                  [IdleReq EXCEPT !.pc = "submit", !.op = "create", !.user = u,
                                  !.payload = p,
                                  !.expiry = create_attestation_expiry(now)]])
    /\ ret' = NoRet /\ vcall' = NoCall
    /\ UNCHANGED <<ledger, now, boot, won, started>>

\* mutant: the handler creates whatever fetch_attestation returned
handler_creates_always(fetched) == TRUE

\* the arm of the handler's match that calls create_attestation: Ok(None)
handler_creates(fetched) == fetched = "None"

\* fetch_attestation returns; the handler goes on to create_attestation only
\* on Ok(None), and answers its success response otherwise
Fetch(r) ==
    /\ req[r].pc = "fetch"
    /\ LET addr == attestation_pda(cred_pda, schema_pda_, req[r].user) IN
       \E rpc \in RpcRead(addr) :
          LET f == fetch_attestation(rpc, ledger[addr].data) IN
          /\ req' = IF handler_creates(f.res)
                    THEN MarkRace([req EXCEPT
                            ![r].pc = "submit",
                            ![r].expiry = create_attestation_expiry(now)])
                    ELSE [req EXCEPT ![r] = IdleReq]
          /\ ret' = [NoRet EXCEPT
                        !.kind = "fetch", !.r = r, !.op = req[r].op,
                        !.user = req[r].user, !.rpc = rpc,
                        !.fetched = f.res, !.got = f.payload,
                        !.pre = ledger[addr],
                        !.response = verification_response(TRUE, f.res)]
    /\ vcall' = NoCall
    /\ UNCHANGED <<ledger, now, boot, won, started>>

\* send: the ledger commits or rejects the creation; create_attestation
\* returns, and the handler answers its success response either way
Submit(r) ==
    /\ req[r].pc = "submit"
    /\ LET u == req[r].user
           addr == attestation_pda(cred_pda, schema_pda_, u)
       IN
       \E fault \in BOOLEAN :
          LET accepted == ~fault /\ LedgerAccepts(addr) IN
          /\ ledger' = IF accepted
                       THEN CreateAccount(addr,
                                create_attestation_data(u, req[r].payload,
                                                        req[r].expiry))
                       ELSE ledger
          /\ won' = IF accepted
                    THEN [won EXCEPT ![u] =
                            Append(@, [payload |-> req[r].payload,
                                       expiry |-> req[r].expiry])]
                    ELSE won
          /\ ret' = [NoRet EXCEPT
                        !.kind = "create", !.r = r, !.op = req[r].op,
                        !.user = u, !.payload = req[r].payload,
                        !.expiry = req[r].expiry,
                        !.rpc = IF fault THEN "Fault" ELSE "Ok",
                        !.created = create_attestation_result(accepted),
                        !.occupied = ~fault /\ Occupied(addr),
                        !.raced = req[r].raced,
                        !.pre = ledger[addr],
                        !.response = IF req[r].op = "verify" THEN "TT" ELSE "-"]
    /\ req' = [req EXCEPT ![r] = IdleReq]
    /\ vcall' = NoCall
    /\ UNCHANGED <<now, boot, started>>

----------------------------------------------------------------------------
(* Clock.  It advances in steps of one validity window; a submitted        *)
(* transaction carries a recent blockhash, so no window passes while one   *)
(* is in flight.                                                           *)

Tick ==
    /\ now < MaxJump * ATTESTATION_EXPIRY
    /\ \A r \in Reqs : req[r].pc # "submit"
    /\ now' = now + ATTESTATION_EXPIRY
    /\ ret' = NoRet /\ vcall' = NoCall
    /\ UNCHANGED <<ledger, boot, req, won, started>>

----------------------------------------------------------------------------
(* The validator run on accounts of the ledger.  It reads the ledger and   *)
(* the clock only, and every ledger and clock state is also reached with   *)
(* no call of the service in flight, so it is run between calls.           *)

AttestationArgs ==
    {attestation_pda(cred_pda, schema_pda_, u) : u \in Users}
        \cup {SystemProgramId}

CredSchemaArgs == {<<cred_pda, schema_pda_>>, <<schema_pda_, cred_pda>>}

Validate(att, cs, u) ==
    /\ \A r \in Reqs : ~InFlight(r)
    /\ vcall' = [stage |-> "done", ai |-> AccountInfo(att),
                 credential |-> cs[1], schema |-> cs[2], user |-> u,
                 clock |-> now,
                 res |-> validate_impl(AccountInfo(att), cs[1], cs[2], u, now),
                 fetched |-> "-", got |-> NoPayload]
    /\ ret' = NoRet
    /\ UNCHANGED <<ledger, now, boot, req, won, started>>

\* the answer of validate_handler: valid unless the address does not parse
\* or call_validate returned an error
validate_handler_response(parsed, sent) ==
    IF parsed /\ sent = "Ok" THEN "valid" ELSE "not valid"

\* validate_handler.  call_validate sends one transaction that runs the
\* validator on the subject's derived address with the service's credential
\* and schema; it returns Ok(signature) exactly when the transaction is
\* confirmed, that is when the validator returned Ok.
ValidateHandler(s) ==
    /\ boot = "ready"
    /\ \A r \in Reqs : ~InFlight(r)
    /\ IF from_str(s).ok
       THEN \E fault \in BOOLEAN :
              LET u == from_str(s).key
                  ai == AccountInfo(attestation_pda(cred_pda, schema_pda_, u))
                  run == validate_impl(ai, cred_pda, schema_pda_, u, now)
                  sent == IF fault \/ ~run.ok THEN "Err" ELSE "Ok"
              IN
              /\ vcall' = IF fault
                          THEN NoCall
                          ELSE [stage |-> "done", ai |-> ai,
                                credential |-> cred_pda, schema |-> schema_pda_,
                                user |-> u, clock |-> now, res |-> run,
                                fetched |-> "-", got |-> NoPayload]
              /\ ret' = [NoRet EXCEPT
                            !.kind = "validate", !.op = "validate",
                            !.user = u,
                            !.rpc = IF fault THEN "Fault" ELSE "Ok",
                            !.response = validate_handler_response(TRUE, sent)]
       ELSE /\ vcall' = NoCall
            /\ ret' = [NoRet EXCEPT
                          !.kind = "invalid", !.op = "validate",
                          !.address = s,
                          !.response = validate_handler_response(FALSE, "-")]
    /\ UNCHANGED <<ledger, now, boot, req, won, started>>

Next ==
    \/ InitStart
    \/ InitCheckCred
    \/ InitCreateCred
    \/ InitCheckSchema
    \/ InitCreateSchema
    \/ \E r \in Reqs, s \in AddressStrings : Verify(r, s)
    \/ \E r \in Reqs, u \in Users, p \in AttestationPayloads : CreateCall(r, u, p)
    \/ \E r \in Reqs : Fetch(r)
    \/ \E r \in Reqs : Submit(r)
    \/ Tick
    \/ \E att \in AttestationArgs, cs \in CredSchemaArgs, u \in Users :
          Validate(att, cs, u)
    \/ \E s \in AddressStrings : ValidateHandler(s)

Spec == Init /\ [][Next]_vars

----------------------------------------------------------------------------
(* The service started on a ledger that an earlier deployment may have      *)
(* used: fresh, or holding the credential and a Schema account written     *)
(* with the earlier layout.                                                *)

UsedLedger ==
    [a \in Addrs |->
        CASE a = SystemProgramId ->
                [exists |-> TRUE, owner |-> NativeLoaderId, data |-> <<>>]
          [] a = cred_pda ->
                [exists |-> TRUE, owner |-> SOLANA_ATTESTATION_SERVICE_ID,
                 data |-> CredentialData]
          [] a = schema_pda_ ->
                [exists |-> TRUE, owner |-> SOLANA_ATTESTATION_SERVICE_ID,
                 data |-> DriftedSchemaData]
          [] OTHER -> Absent]

InitD ==
    /\ ledger \in {FreshLedger, UsedLedger}
    /\ now = 0
    /\ boot = "new"
    /\ req = [r \in Reqs |-> IdleReq]
    /\ won = [u \in Users |-> <<>>]
    /\ ret = NoRet
    /\ started = FALSE
    /\ vcall = NoCall

SpecD == InitD /\ [][Next]_vars

----------------------------------------------------------------------------
(* The validator as a function of its inputs: any owner, address and       *)
(* account bytes, any credential, schema and subject argument, any clock.  *)

VOwners == {SOLANA_ATTESTATION_SERVICE_ID, SystemProgramId}

VKeys ==
    {attestation_pda(cred_pda, schema_pda_, u) : u \in Users}
        \cup {attestation_pda(schema_pda_, cred_pda, <<"u1">>), cred_pda,
              SystemProgramId}

VRefs == {cred_pda, schema_pda_}

VPayloads == UNION {[1..n -> Bytes] : n \in 0..MaxLen}

VTimes == 0..MaxVTime

InitV ==
    /\ InitService
    /\ \E owner \in VOwners, key \in VKeys, shape \in {"attestation", "credential", "empty"},
          n \in Users, c \in VRefs, s \in VRefs, d \in VPayloads, e \in VTimes,
          ca \in VRefs, sa \in VRefs, u \in Users, t \in VTimes :
          vcall = [stage |-> "pending",
                   ai |-> [key |-> key, owner |-> owner,
                           data |-> CASE shape = "attestation" ->
                                           AttestationData(n, c, s, d, Signer, e)
                                      [] shape = "credential" -> CredentialData
                                      [] OTHER -> <<>>],
                   credential |-> ca, schema |-> sa, user |-> u, clock |-> t,
                   res |-> Reject("-"), fetched |-> "-", got |-> NoPayload]

RunValidate ==
    /\ vcall.stage = "pending"
    /\ vcall' = [vcall EXCEPT
                    !.stage = "done",
                    !.res = validate_impl(vcall.ai, vcall.credential,
                                          vcall.schema, vcall.user, vcall.clock)]
    /\ UNCHANGED <<ledger, now, boot, req, won, ret, started>>

NextV == RunValidate

SpecV == InitV /\ [][NextV]_vars

----------------------------------------------------------------------------
(* The payload codec as a function of its inputs: any payload is encoded    *)
(* into an attestation account and read back, and any payload bytes, in an *)
(* otherwise genuine and unexpired attestation account, are read by        *)
(* fetch_attestation and by the validator; so is an account at the         *)
(* attestation address that holds no attestation header.                   *)

InitC ==
    /\ ledger = FreshLedger
    /\ now = 0
    /\ boot = "new"
    /\ req = [r \in Reqs |-> IdleReq]
    /\ won = [u \in Users |-> <<>>]
    /\ started = FALSE
    /\ \E p \in AttestationPayloads, u \in Users, d \in VPayloads,
          shape \in {"attestation", "credential", "empty"} :
          /\ ret = [NoRet EXCEPT !.kind = "pending", !.user = u, !.payload = p]
          /\ vcall = [NoCall EXCEPT
                         !.stage = "pending",
                         !.ai = [key |-> attestation_pda(cred_pda, schema_pda_, u),
                                 owner |-> SOLANA_ATTESTATION_SERVICE_ID,
                                 data |-> CASE shape = "attestation" ->
                                                AttestationData(u, cred_pda,
                                                    schema_pda_, d, Signer,
                                                    create_attestation_expiry(now))
                                            [] shape = "credential" ->
                                                CredentialData
                                            [] OTHER -> <<>>],
                         !.credential = cred_pda, !.schema = schema_pda_,
                         !.user = u, !.clock = now]

\* the payload as create_attestation encodes it into the account data, and
\* as fetch_attestation decodes it from there
RoundTrip ==
    /\ ret.kind = "pending"
    /\ LET data == create_attestation_data(ret.user, ret.payload,
                                           create_attestation_expiry(now))
           f == fetch_attestation("Ok", data)
       IN ret' = [ret EXCEPT !.kind = "codec",
                             !.bytes = from_bytes(data).data,
                             !.fetched = f.res, !.got = f.payload]
    /\ UNCHANGED <<ledger, now, boot, req, won, vcall, started>>

\* the same account read by fetch_attestation and by the validator
DecodeRaw ==
    /\ vcall.stage = "pending"
    /\ LET f == fetch_attestation("Ok", vcall.ai.data) IN
       vcall' = [vcall EXCEPT
                    !.stage = "done",
                    !.res = validate_impl(vcall.ai, vcall.credential,
                                          vcall.schema, vcall.user, vcall.clock),
                    !.fetched = f.res, !.got = f.payload]
    /\ UNCHANGED <<ledger, now, boot, req, won, ret, started>>

NextC == RoundTrip \/ DecodeRaw

SpecC == InitC /\ [][NextC]_vars

----------------------------------------------------------------------------
(* Properties of the validator *)

AttAddr(u) == attestation_pda(cred_pda, schema_pda_, u)

\* the header stored at the subject's attestation address
Stored(u) == from_bytes(ledger[AttAddr(u)].data)

\* a create_attestation for the subject has succeeded
IssuedTo(u) == won[u] # <<>>

VDone == vcall.stage = "done"

\* the validator was run for subject u on u's derived address with the
\* service's credential and schema
CalledFor(u) ==
    /\ VDone
    /\ vcall.ai.key = AttAddr(u)
    /\ vcall.credential = cred_pda
    /\ vcall.schema = schema_pda_
    /\ vcall.user = u

BothTrue == [age |-> TRUE, country |-> TRUE]

\* the checks of the validator that fail on the inputs of call v, by number;
\* the checks that read the header fail only on a header that decodes
FailedChecks(v) ==
    LET att == from_bytes(v.ai.data) IN
    {i \in 1..6 :
        CASE i = 1 -> ~owner_check(v.ai)
          [] i = 2 -> ~pda_check(v.ai, v.credential, v.schema, v.user)
          [] i = 3 -> ~att.ok
          [] i = 4 -> att.ok /\ ~header_check(att, v.credential, v.schema, v.user)
          [] i = 5 -> att.ok /\ ~expiry_check(v.clock, att.expiry)
          [] OTHER -> att.ok /\ ~payload_len_check(att.data)}

CheckReason ==
    <<"WrongOwner", "InvalidAttestationPda", "DecodeFailed", "HeaderMismatch",
      "Expired", "SchemaMismatch">>

FirstFailure(v) ==
    IF FailedChecks(v) = {}
    THEN "none"
    ELSE CheckReason[CHOOSE i \in FailedChecks(v) :
                        \A j \in FailedChecks(v) : i <= j]

\* C1: after create_attestation(u, {true, true}) succeeded, the validator run
\* on u's derived address with the service's credential and schema and the
\* same subject, at a clock below the stored expiry, returns Ok and reports
\* valid = true.
C1_ValidatorAccepts ==
    \A u \in Users :
        (/\ CalledFor(u)
         /\ IssuedTo(u)
         /\ won[u][1].payload = BothTrue
         /\ vcall.clock < Stored(u).expiry)
        => (vcall.res.ok /\ vcall.res.emitted /\ vcall.res.valid)

C1_Witness ==
    \E u \in Users :
        /\ CalledFor(u)
        /\ IssuedTo(u)
        /\ won[u][1].payload = BothTrue
        /\ vcall.clock < Stored(u).expiry
        /\ vcall.res.valid

\* C2: the validator rejects with the reason of the first failing check in
\* the order owner, address, header decode, header cross-reference, expiry,
\* payload length, and accepts exactly when no check fails.
C2_CheckOrder ==
    VDone =>
        /\ vcall.res.err = FirstFailure(vcall)
        /\ vcall.res.ok <=> (FailedChecks(vcall) = {})

\* several checks fail at once and the earliest one is reported
C2_Witness ==
    /\ VDone
    /\ FailedChecks(vcall) = {4, 5, 6}
    /\ vcall.res.err = "HeaderMismatch"

\* C3: for an attestation created with a false field, with owner, address,
\* header and expiry all correct, the validate call returns an error.
C3_FalseClaimRejected ==
    \A u \in Users :
        (/\ CalledFor(u)
         /\ IssuedTo(u)
         /\ won[u][1].payload # BothTrue
         /\ vcall.clock < Stored(u).expiry)
        => ~vcall.res.ok

C5_ExpiryStrict ==
    (VDone /\ FailedChecks(vcall) \cap 1..4 = {})
        => ((vcall.clock >= from_bytes(vcall.ai.data).expiry)
                <=> (vcall.res.err = "Expired"))

\* the clock equals the expiry
C5_Witness ==
    /\ VDone
    /\ FailedChecks(vcall) \cap 1..4 = {}
    /\ vcall.clock = from_bytes(vcall.ai.data).expiry
    /\ vcall.res.err = "Expired"

\* C6: an account not owned by the attestation-service program is rejected
\* with WrongOwner whatever the credential, schema, subject and clock, and
\* no valid result is reported.
C6_OwnershipGate ==
    (VDone /\ vcall.ai.owner # SOLANA_ATTESTATION_SERVICE_ID)
        => (/\ vcall.res.err = "WrongOwner"
            /\ ~vcall.res.ok
            /\ ~vcall.res.emitted
            /\ ~vcall.res.valid)

\* the derived address of a subject nothing was ever created for
C6_Witness ==
    \E u \in Users :
        /\ CalledFor(u)
        /\ ~IssuedTo(u)
        /\ ~ledger[AttAddr(u)].exists
        /\ vcall.res.err = "WrongOwner"

\* C7: the genuine, unexpired {true, true} attestation account of subject a,
\* passed with another subject b as the user argument, is rejected with
\* InvalidAttestationPda or HeaderMismatch.
C7_SubjectBinding ==
    \A a \in Users, b \in Users :
        (/\ a # b
         /\ VDone
         /\ vcall.ai.key = AttAddr(a)
         /\ vcall.user = b
         /\ IssuedTo(a)
         /\ won[a][1].payload = BothTrue
         /\ vcall.clock < Stored(a).expiry)
        => (/\ ~vcall.res.ok
            /\ vcall.res.err \in {"InvalidAttestationPda", "HeaderMismatch"})

C7_Witness ==
    \E a \in Users, b \in Users :
        /\ a # b
        /\ VDone
        /\ vcall.ai.key = AttAddr(a)
        /\ vcall.user = b
        /\ vcall.credential = cred_pda
        /\ vcall.schema = schema_pda_
        /\ IssuedTo(a)
        /\ won[a][1].payload = BothTrue
        /\ vcall.clock < Stored(a).expiry
        /\ vcall.res.err = "InvalidAttestationPda"

----------------------------------------------------------------------------
(* Properties of the attestation lifecycle *)

\* create_attestation has just returned to a caller that raced another
\* creation for the same subject, and no creation for that subject is left
\* in flight
RaceOver ==
    /\ ret.kind = "create"
    /\ ret.raced # "none"
    /\ \A r \in Reqs : ~(req[r].pc = "submit" /\ req[r].user = ret.user)

\* the stored attestation of subject u is the one the winning creation asked for
HoldsWinner(u) ==
    /\ Stored(u).ok
    /\ Stored(u).nonce = u
    /\ Stored(u).data = serialize(won[u][1].payload)
    /\ Stored(u).expiry = won[u][1].expiry

C9_LoserRecovers ==
    (ret.kind = "create" /\ ret.raced # "none" /\ ret.occupied)
        => ret.created # "Err"

\* every attestation account sits at the address derived from the
\* credential, schema and nonce of its header
AtDerivedAddress(a) ==
    LET h == from_bytes(ledger[a].data) IN
    (ledger[a].exists /\ h.ok)
        => a = attestation_pda(h.credential, h.schema, h.nonce)

\* C10: there is at most one attestation account per (credential, schema,
\* subject); a create_attestation for a subject whose attestation exists
\* returns an error and leaves the account as it was.
C10_OnePerTriple ==
    /\ \A a \in Addrs : AtDerivedAddress(a)
    /\ \A u \in Users : Len(won[u]) <= 1
    /\ (ret.kind = "create" /\ ret.pre.exists)
        => (/\ ret.created = "Err"
            /\ ledger[AttAddr(ret.user)] = ret.pre)

\* a blind retry: the ledger is reached and the address is occupied
C10_Witness ==
    /\ ret.kind = "create"
    /\ ret.pre.exists
    /\ ret.rpc = "Ok"
    /\ ret.created = "Err"
    /\ ledger[AttAddr(ret.user)] = ret.pre

----------------------------------------------------------------------------
(* Properties of the bootstrap *)

\* a later run of init has just returned
InitAgain == ret.kind = "init" /\ ret.again

C11_Step ==
    /\ boot = "createCred" => ~Occupied(cred_pda)
    /\ boot = "createSchema" => ~Occupied(schema_pda_)
    /\ started => boot \notin {"createCred", "createSchema"}
    /\ started => /\ ledger'[cred_pda] = ledger[cred_pda]
                  /\ ledger'[schema_pda_] = ledger[schema_pda_]
    /\ (started /\ ret'.kind = "init")
          => (ret'.created = "Ok" \/ ret'.rpc = "Fault")

InitOrder ==
    [new |-> {"checkCred", "failed"},
     checkCred |-> {"checkSchema", "createCred", "failed"},
     createCred |-> {"checkSchema", "failed"},
     checkSchema |-> {"ready", "createSchema", "failed"},
     createSchema |-> {"ready", "failed"},
     ready |-> {"checkCred", "failed"},
     failed |-> {"checkCred", "failed"}]

\* C25: within one run of init each creation is submitted at most once; a
\* rejected credential creation makes init return that error, with no
\* schema creation submitted; and the schema creation is submitted only
\* while the credential account exists.
C25_Step ==
    /\ boot' # boot => boot' \in InitOrder[boot]
    /\ (boot = "createCred" /\ boot' # boot /\ ~ledger'[cred_pda].exists)
          => (/\ boot' = "failed"
              /\ ret'.kind = "init"
              /\ ret'.created = "Err"
              /\ ledger' = ledger)
    /\ (boot = "createSchema" /\ boot' # boot /\ ~ledger'[schema_pda_].exists)
          => (/\ boot' = "failed"
              /\ ret'.kind = "init"
              /\ ret'.created = "Err"
              /\ ledger' = ledger)
    /\ boot = "createSchema" => Occupied(cred_pda)

C25_BootstrapOrdered == [][C25_Step]_vars

\* init returned the error of a rejected credential creation; no schema
\* account was made
C25_Witness ==
    /\ ret.kind = "init"
    /\ ret.op = "createCred"
    /\ ret.created = "Err"
    /\ boot = "failed"
    /\ ~Occupied(cred_pda)
    /\ ~Occupied(schema_pda_)

\* the Schema account at the derived address carries the layout and field
\* names compiled into the codec
SchemaAgrees ==
    /\ SchemaLayout(ledger[schema_pda_].data) = layout
    /\ SchemaFields(ledger[schema_pda_].data) = fields

\* C17: when the Schema account at the derived schema address differs from
\* the codec in its layout or field names, init does not complete
\* successfully.
C17_DriftDetected ==
    (Occupied(schema_pda_) /\ ~SchemaAgrees) => boot # "ready"

----------------------------------------------------------------------------
(* Properties of fetch_attestation and of the handlers *)

\* fetch_attestation(u) has just returned
Fetched(u) == ret.kind = "fetch" /\ ret.user = u

\* C12: once create_attestation(u, p) has returned success, every
\* fetch_attestation(u) whose ledger read succeeds returns Some(p), whatever
\* was done for other subjects in between.
C12_ExistenceGating ==
    \A u \in Users :
        (Fetched(u) /\ IssuedTo(u) /\ ret.rpc = "Ok")
            => (ret.fetched = "Some" /\ ret.got = won[u][1].payload)

\* a payload with two different fields is read back after an attestation
\* was created for the other subject too
C12_Witness ==
    \E u \in Users :
        /\ Fetched(u)
        /\ ret.rpc = "Ok"
        /\ IssuedTo(u)
        /\ won[u][1].payload = [age |-> TRUE, country |-> FALSE]
        /\ ret.fetched = "Some"
        /\ ret.got = [age |-> TRUE, country |-> FALSE]
        /\ \E o \in Users \ {u} : IssuedTo(o)

\* C13: fetch_attestation for a subject with no account at the derived
\* address returns Ok(None), never an error, and writes nothing.
C13_Step ==
    (ret'.kind = "fetch" /\ ~ret'.pre.exists)
        => (ret'.fetched = "None" /\ ledger' = ledger)

C13_MissingIsNone == [][C13_Step]_vars

\* the ledger answered that there is no such account
C13_Witness ==
    /\ ret.kind = "fetch"
    /\ ~ret.pre.exists
    /\ ret.rpc = "NotFound"
    /\ ret.fetched = "None"
    /\ ~ledger[AttAddr(ret.user)].exists

\* the verification handler has just answered a request for a parsed address
Answered ==
    /\ ret.kind \in {"fetch", "create"}
    /\ ret.op = "verify"
    /\ ret.response # "-"

\* C14: a verification request whose fetch fails, or whose create submission
\* fails while no attestation exists, is not answered {true, true}; an answer
\* of {true, true} implies that the subject's attestation is on the ledger.
C14_FailureNotVerified ==
    Answered =>
        /\ (ret.kind = "fetch" /\ ret.fetched \in {"ErrHeader", "ErrPayload"})
              => ret.response # "TT"
        /\ (/\ ret.kind = "create"
            /\ ret.created = "Err"
            /\ ~ledger[AttAddr(ret.user)].exists)
              => ret.response # "TT"
        /\ ret.response = "TT" => ledger[AttAddr(ret.user)].exists

\* a handler has just answered a request whose address does not parse
InvalidAddress(r) == r.kind = "invalid" /\ ~from_str(r.address).ok

\* C15: for an address string that does not parse, the verification handler
\* answers {false, false} and the validate handler answers valid = false,
\* and neither reads nor writes the ledger: no call of the service is
\* started and the validator is not run.
C15_Step ==
    InvalidAddress(ret') =>
        /\ ret'.op = "verify" => ret'.response = "FF"
        /\ ret'.op = "validate" => ret'.response = "not valid"
        /\ ret'.rpc = "-"
        /\ ledger' = ledger
        /\ req' = req
        /\ vcall' = NoCall

C15_InvalidStopped == [][C15_Step]_vars

\* the verification handler turned an address down while the other slot
\* has a request in flight
C15_Witness ==
    /\ InvalidAddress(ret)
    /\ ret.op = "verify"
    /\ ret.response = "FF"
    /\ \E r \in Reqs : InFlight(r)

\* the validate handler turned an address down
C15_WitnessValidate ==
    /\ InvalidAddress(ret)
    /\ ret.op = "validate"
    /\ ret.response = "not valid"

\* the steps of the verification request in slot r: its read and its write
ReadStep(r) == ret'.kind = "fetch" /\ ret'.r = r
WriteStep(r) == ret'.kind = "create" /\ ret'.r = r /\ ret'.op = "verify"

\* C16: a verification request reads the attestation once and then submits
\* at most one creation, and only when that read returned None; when the
\* read returned an attestation, nothing is submitted.
C16_Step ==
    \A r \in Reqs :
        /\ ReadStep(r)
              => /\ req[r].pc = "fetch"
                 /\ ledger' = ledger
                 /\ req'[r].pc = IF ret'.fetched = "None" THEN "submit" ELSE "idle"
        /\ WriteStep(r) => (req[r].pc = "submit" /\ req'[r].pc = "idle")
        /\ (req[r].op = "verify" /\ req[r].pc = "fetch")
              => (req'[r] = req[r] \/ ReadStep(r))
        /\ (req[r].op = "verify" /\ req[r].pc = "submit")
              => (req'[r].pc = "submit" \/ WriteStep(r))
        /\ (req'[r].op = "verify" /\ req'[r].pc = "submit" /\ req[r].pc # "submit")
              => (ReadStep(r) /\ ret'.fetched = "None")
        /\ (req'[r].pc = "fetch" /\ req[r].pc # "fetch")
              => (req[r].pc = "idle" /\ ret'.kind = "none")

C26_NoneMeansAbsent ==
    ret.kind = "fetch" =>
        /\ ret.fetched = "None" => ~ret.pre.exists
        /\ (ret.rpc = "Fault" /\ ret.pre.exists)
              => (/\ ret.fetched \notin {"None", "Some"}
                  /\ req[ret.r].pc # "submit")

----------------------------------------------------------------------------
(* Properties of the payload codec *)

RECURSIVE Sum(_)
Sum(seq) == IF seq = <<>> THEN 0 ELSE Head(seq) + Sum(Tail(seq))

\* the attestation accounts on the ledger
Attested == {u \in Users : ledger[AttAddr(u)].exists}

C19_RoundTrip ==
    ret.kind = "codec" =>
        /\ ret.fetched = "Some"
        /\ ret.got = ret.payload
        /\ Len(ret.bytes) = 2
        /\ (ret.bytes[1] # 0) <=> ret.payload.age
        /\ (ret.bytes[2] # 0) <=> ret.payload.country

\* a payload whose two fields differ went through the codec
C19_Witness ==
    /\ ret.kind = "codec"
    /\ ret.payload = [age |-> FALSE, country |-> TRUE]
    /\ ret.bytes = <<0, 1>>
    /\ ret.got = ret.payload

\* C20: every two-byte payload is decoded by fetch_attestation, each byte
\* false when zero and true when nonzero, and the validator reads the same
\* two values from it.
C20_SameByteSemantics ==
    LET d == from_bytes(vcall.ai.data).data IN
    (/\ vcall.stage = "done"
     /\ vcall.fetched # "-"
     /\ from_bytes(vcall.ai.data).ok
     /\ Len(d) = 2) =>
        /\ vcall.fetched = "Some"
        /\ vcall.got = [age |-> d[1] # 0, country |-> d[2] # 0]
        /\ vcall.res.ok
        /\ vcall.res.valid <=> (vcall.got.age /\ vcall.got.country)

\* fetch_attestation has read the account of the validator call
ReadRaw == vcall.stage = "done" /\ vcall.fetched # "-"

\* C21: for an account that was read, fetch_attestation fails with the
\* header error when the header does not parse, and with the different
\* payload error when the header parses and the payload is not two bytes
\* long; it returns neither None nor Some then.
C21_FetchErrors ==
    ReadRaw =>
        LET h == from_bytes(vcall.ai.data) IN
        /\ ~h.ok => vcall.fetched = "ErrHeader"
        /\ (h.ok /\ Len(h.data) # 2) => vcall.fetched = "ErrPayload"
        /\ vcall.fetched = "ErrHeader" => ~h.ok
        /\ vcall.fetched = "ErrPayload" => h.ok

\* a header that parses over a payload of one byte
C21_Witness ==
    /\ ReadRaw
    /\ from_bytes(vcall.ai.data).ok
    /\ Len(from_bytes(vcall.ai.data).data) = 1
    /\ vcall.fetched = "ErrPayload"

\* an account without attestation header
C21_WitnessHeader ==
    /\ ReadRaw
    /\ vcall.ai.data = CredentialData
    /\ vcall.fetched = "ErrHeader"

\* C22: fetch_attestation returns Some(payload) for the subject's
\* attestation account whenever it reads it, before and after the expiry:
\* what it returns is decided by the account and not by the clock.
C22_FetchIgnoresExpiry ==
    (ret.kind = "fetch" /\ ret.rpc = "Ok" /\ ret.pre.exists) =>
        LET h == from_bytes(ret.pre.data) IN
        /\ ret.fetched = "Some"
        /\ ret.got = [age |-> h.data[1] # 0, country |-> h.data[2] # 0]

\* an attestation is fetched when the clock has reached its expiry
C22_Witness ==
    /\ ret.kind = "fetch"
    /\ ret.rpc = "Ok"
    /\ ret.pre.exists
    /\ now >= from_bytes(ret.pre.data).expiry
    /\ ret.fetched = "Some"
    /\ ret.got = won[ret.user][1].payload

----------------------------------------------------------------------------
(* Properties of the addresses and of the accounts *)

\* C23: the validator finds the account passed to it at the derived address
\* exactly when its address is the one both builds of the client derive
\* from the same credential, schema and subject, and the addresses of
\* different subjects under one credential and schema differ.
C23_DerivationAgrees ==
    VDone =>
        LET c == vcall.credential
            s == vcall.schema
            u == vcall.user
        IN
        /\ attestation_pda_v0(c, s, u) = attestation_pda(c, s, u)
        /\ owner_check(vcall.ai)
              => ((vcall.res.err = "InvalidAttestationPda")
                    <=> (vcall.ai.key # attestation_pda(c, s, u)))
        /\ \A o \in Users \ {u} :
              attestation_pda(c, s, o) # attestation_pda(c, s, u)

\* an address derived from a schema and a credential in the other order is
\* found by the validator when it is given them in that order
C23_Witness ==
    /\ VDone
    /\ owner_check(vcall.ai)
    /\ vcall.credential = schema_pda_
    /\ vcall.schema = cred_pda
    /\ vcall.ai.key = attestation_pda(schema_pda_, cred_pda, vcall.user)
    /\ vcall.res.err # "InvalidAttestationPda"

\* C24: no step of init, create_attestation, fetch_attestation or validate,
\* successful or failed, changes or removes an account that exists; the
\* steps of fetch_attestation and of validate change no account at all.
C24_Step ==
    /\ \A a \in Addrs : ledger[a].exists => ledger'[a] = ledger[a]
    /\ (ret'.kind \in {"fetch", "validate"} \/ vcall'.stage = "done")
          => ledger' = ledger

C24_WriteOnce == [][C24_Step]_vars

\* the validator has run after a validity window passed, and the credential,
\* the schema and both attestations are as they were created
C24_Witness ==
    /\ VDone
    /\ now > 0
    /\ started
    /\ ledger[cred_pda].data = CredentialData
    /\ ledger[schema_pda_].data = SchemaData
    /\ Attested = Users
    /\ \A u \in Users : HoldsWinner(u)

\* C27: every attestation account that create_attestation made for a subject
\* is at the address derived from the service's credential and schema and
\* that subject, and its header holds that credential, that schema, the
\* subject as nonce and the creation time plus the validity window as
\* expiry; the validator, called with the service's credential and schema
\* and the subject, rejects it neither with InvalidAttestationPda nor with
\* HeaderMismatch.
C27_HeaderBinding ==
    /\ \A u \in Attested :
          /\ IssuedTo(u)
          /\ Stored(u).ok
          /\ Stored(u).credential = cred_pda
          /\ Stored(u).schema = schema_pda_
          /\ Stored(u).nonce = u
    /\ (ret.kind = "create" /\ ret.created = "Ok")
          => (/\ ret.user \in Attested
              /\ Stored(ret.user).expiry = now + ATTESTATION_EXPIRY
              /\ Stored(ret.user).expiry > now)
    /\ \A u \in Attested :
          CalledFor(u)
              => vcall.res.err \notin {"InvalidAttestationPda", "HeaderMismatch"}

\* the validator went past the address and header checks of an attestation
\* issued with a false field
C27_Witness ==
    \E u \in Attested :
        /\ CalledFor(u)
        /\ won[u][1].payload = [age |-> FALSE, country |-> TRUE]
        /\ vcall.res.ok
        /\ ~vcall.res.valid

----------------------------------------------------------------------------
(* Properties of the validate endpoint and of expiry *)

\* validate_handler has just answered a request for subject u
ValidateAnswered(u) == ret.kind = "validate" /\ ret.user = u

\* C28: validate_handler answers valid = true for a subject only if the
\* validator run for that subject reported both claim fields true; for a
\* subject whose unexpired attestation holds a false field it answers
\* valid = false.
C28_EndpointReflectsVerdict ==
    \A u \in Users :
        ValidateAnswered(u) =>
            /\ ret.response = "valid"
                  => (CalledFor(u) /\ vcall.res.ok /\ vcall.res.valid)
            /\ (/\ u \in Attested
                /\ now < Stored(u).expiry
                /\ won[u][1].payload # BothTrue)
                  => ret.response = "not valid"

\* the clock has reached the expiry of the subject's attestation
Lapsed(u) ==
    /\ ledger[AttAddr(u)].exists
    /\ now >= Stored(u).expiry

\* C29: once the clock has reached the expiry of a subject's attestation,
\* it stays so whatever requests follow: the account is never replaced, a
\* fetch that reads it still returns it and no creation follows, and the
\* validator, called for that subject, rejects it with Expired.
C29_Step ==
    \A u \in Users :
        LET a == AttAddr(u) IN
        (ledger[a].exists /\ now >= from_bytes(ledger[a].data).expiry) =>
            /\ now' >= now
            /\ ledger'[a] = ledger[a]
            /\ Len(won'[u]) = 1
            /\ (ret'.kind = "fetch" /\ ret'.user = u /\ ret'.rpc = "Ok")
                  => (ret'.fetched = "Some" /\ req'[ret'.r].pc = "idle")
            /\ (/\ vcall'.stage = "done"
                /\ vcall'.user = u
                /\ vcall'.ai.key = a
                /\ vcall'.credential = cred_pda
                /\ vcall'.schema = schema_pda_)
                  => (~vcall'.res.ok /\ vcall'.res.err = "Expired")

C29_ExpiryPermanent == [][C29_Step]_vars

\* the validator rejects a lapsed attestation while the other subject holds
\* one that was issued later and has not lapsed
C29_Witness ==
    \E u \in Users :
        /\ Lapsed(u)
        /\ CalledFor(u)
        /\ vcall.res.err = "Expired"
        /\ \E o \in Attested : now < Stored(o).expiry

====
